---- MODULE Spec2Model ----
(***************************************************************************)
(* MetaReasoner: the three-round council engine of backend/council.py and  *)
(* its two drivers (run_full_council, send_message_stream).                *)
(*                                                                         *)
(* Texts are sequences of tokens.  A token is one of                       *)
(*   "mark"  the literal  FINAL RANKING:                                   *)
(*   "num"   a match of   \d+\.        (digits and a period)               *)
(*   "sp"    a match of   \s           (one whitespace character)          *)
(*   "oth"   any other stretch of characters                               *)
(*   "A".."Z" the literal  Response <letter>                               *)
(* The same letter stands for the key "Response <letter>" of the           *)
(* label-to-model mapping and for the token a parse returns.               *)
(*                                                                         *)
(* Scores are kept in twentieths (Unit = 1/20) so that the weight 0.5 and  *)
(* a confidence in tenths stay integral: total_score 10.0 is 200.          *)
(***************************************************************************)
EXTENDS Integers, Sequences, FiniteSets, TLC

VARIABLES
    mode,            \* which entry point this behaviour exercises
    pc,              \* position of the running coroutine
    override,        \* request.council_models (<<>> when absent or empty)
    council,         \* resolved panel
    category,        \* detected category / source tag
    call1,           \* Round-1 call per panel index: "idle","pending","ok","fail"
    call2,           \* Round-2 call per panel index: "idle","pending","done"
    reply2,          \* Round-2 reply per panel index
    stage1_results,  \* list of [model, response]
    stage2_results,  \* list of [model, ranking, parsed_ranking, rubric]
    label_to_model,  \* function label -> model
    aggregate,       \* result of calculate_aggregate_rankings
    stream,          \* fragments the streaming collaborator has still to deliver
    accumulated,     \* accumulated_text of stage3_synthesize_final
    yielded,         \* items stage3_synthesize_final has yielded, in order
    call3,           \* number of Round-3 (streaming) calls issued
    stage3_result,   \* final result record
    metadata,        \* metadata returned by run_full_council
    events,          \* events emitted by event_generator, in order
    messages,        \* roles of the stored turns of the conversation
    is_first_message,\* the conversation had no turn when the request arrived
    text,            \* input text of parse_ranking_from_text
    parsed,          \* its result
    model_responses, \* rows of table model_responses with stage = 1
    rankings,        \* rows of table rankings
    leaderboard,     \* what calculate_elo_ratings returned last (results), with
                     \* the pairwise updates it applied, in order (applied)
    router_calls,    \* number of classify_query calls made
    router_reply,    \* what the router model answered to the last of them
    requests         \* the message requests in flight on one conversation: each
                     \* one's endpoint, position and is_first_message

vars == <<mode, pc, override, council, category, call1, call2, reply2,
          stage1_results, stage2_results, label_to_model, aggregate, stream,
          accumulated, call3, stage3_result, metadata, events, messages,
          is_first_message,
          text, parsed, yielded, model_responses, rankings, leaderboard,
          router_calls, router_reply, requests>>

----------------------------------------------------------------------------
(* Bounds *)

MaxLen == 5

MaxPanel == 2

MaxFrag == 2

MaxEval == 2

MaxRank == 2

----------------------------------------------------------------------------
(* Generic helpers *)

\* the sequences over S of length at most n
SeqsUpTo(S, n) == UNION {[1..k -> S] : k \in 0..n}

Range(s) == {s[i] : i \in 1..Len(s)}

Injective(s) == \A i, j \in 1..Len(s) : s[i] = s[j] => i = j

----------------------------------------------------------------------------
(* Tokens and labels *)

Letters == <<"A", "B", "C", "D", "E", "F", "G", "H", "I", "J", "K", "L", "M",
             "N", "O", "P", "Q", "R", "S", "T", "U", "V", "W", "X", "Y", "Z">>

LetterSet == Range(Letters)

TextLabels == {"A", "B"}

Tokens == {"mark", "num", "sp", "oth"} \cup TextLabels

Texts == SeqsUpTo(Tokens, MaxLen)

HasMarker(t) == \E i \in 1..Len(t) : t[i] = "mark"

----------------------------------------------------------------------------
(* parse_ranking_from_text *)

\* str.split("FINAL RANKING:"): the pieces between occurrences of the marker
RECURSIVE SplitFrom(_, _, _, _)
SplitFrom(t, i, cur, parts) ==
    IF i > Len(t) THEN Append(parts, cur)
    ELSE IF t[i] = "mark" THEN SplitFrom(t, i + 1, <<>>, Append(parts, cur))
    ELSE SplitFrom(t, i + 1, Append(cur, t[i]), parts)

Split(t) == SplitFrom(t, 1, <<>>, <<>>)

\* index of the first token at or after i that is not whitespace (Len+1 if none)
RECURSIVE SkipSpace(_, _)
SkipSpace(s, i) ==
    IF i > Len(s) THEN i
    ELSE IF s[i] = "sp" THEN SkipSpace(s, i + 1)
    ELSE i

\* re.findall(r'\d+\.\s*Response [A-Z]', s): non-overlapping matches, left to right
RECURSIVE FindAllFrom(_, _, _)
FindAllFrom(s, i, acc) ==
    IF i > Len(s) THEN acc
    ELSE IF s[i] = "num"
         THEN LET j == SkipSpace(s, i + 1)
              IN  IF j <= Len(s) /\ s[j] \in LetterSet
                  THEN FindAllFrom(s, j + 1, Append(acc, SubSeq(s, i, j)))
                  ELSE FindAllFrom(s, i + 1, acc)
         ELSE FindAllFrom(s, i + 1, acc)

FindAll(s) == FindAllFrom(s, 1, <<>>)

\* re.search(r'Response [A-Z]', m).group(): the first label token of a match
SearchLabel(m) ==
    LET k == CHOOSE i \in 1..Len(m) :
                 m[i] \in LetterSet /\ \A h \in 1..(i - 1) : m[h] \notin LetterSet
    IN  m[k]

RankingSectionHead(parts) == parts[1]

RankingSectionFirst(parts) == parts[2]

\* parts[-1]
RankingSection(parts) == parts[Len(parts)]

\* every numbered entry of the whole text, marker or not
parse_ranking_anywhere(t) ==
    LET numbered_matches == FindAll(t)
    IN  [k \in 1..Len(numbered_matches) |-> SearchLabel(numbered_matches[k])]

parse_ranking_from_text(t) ==
    IF HasMarker(t)
    THEN LET parts == Split(t)
         IN  IF Len(parts) >= 2
             THEN LET numbered_matches == FindAll(RankingSection(parts))
                  IN  [k \in 1..Len(numbered_matches) |-> SearchLabel(numbered_matches[k])]
             ELSE <<>>
    ELSE <<>>

----------------------------------------------------------------------------
(* Replies of the collaborator and stage2_collect_rankings *)

\* an ascending sort read backwards: descending, but equal keys come out reversed
SortAscReversed(s, keys) ==
    LET n == Len(s)
        pos(i) == 1 + Cardinality({j \in 1..n :
                        keys[j] > keys[i] \/ (keys[j] = keys[i] /\ j > i)})
    IN  [p \in 1..n |-> s[CHOOSE i \in 1..n : pos(i) = p]]

\* sorted(..., reverse=True): stable, descending by key; keys[i] is the key of s[i]
StableSortDesc(s, keys) ==
    LET n == Len(s)
        pos(i) == 1 + Cardinality({j \in 1..n :
                        keys[j] > keys[i] \/ (keys[j] = keys[i] /\ j < i)})
    IN  [p \in 1..n |-> s[CHOOSE i \in 1..n : pos(i) = p]]

RECURSIVE SelectSeq2(_, _, _)
SelectSeq2(s, i, acc) ==
    IF i > Len(s) THEN acc
    ELSE SelectSeq2(s, i + 1, IF s[i].label # "none" THEN Append(acc, s[i].label) ELSE acc)

\* a rubric entry: bad = not a dict of numbers (its use raises); label "none" = no
\* response_label key; score = accuracy+reasoning+completeness+clarity; conf in tenths
Entry(b, l, s, c) == [bad |-> b, label |-> l, score |-> s, conf |-> c]

\* (accuracy + reasoning + completeness + clarity) * confidence, in tenths
RawScore(ev) == ev.score * ev.conf

NoJson == [kind |-> "error", evals |-> <<>>]

OtherJson == [kind |-> "other", evals |-> <<>>]

Evals(es) == [kind |-> "evals", evals |-> es]

\* a reply: ok = the call returned a result; text = its content as tokens;
\* json = what json.loads gives on the content with the code fences stripped
NoReply == [ok |-> FALSE, text |-> <<>>, json |-> NoJson]

Reply(t, j) == [ok |-> TRUE, text |-> t, json |-> j]

NoRubric == [present |-> FALSE, entries |-> <<>>]

RubricOf(json) ==
    IF json.kind = "evals" THEN [present |-> TRUE, entries |-> json.evals] ELSE NoRubric

\* the parsed_ranking the try block leaves behind
RubricRanking(json) ==
    IF json.kind = "evals" /\ \A i \in 1..Len(json.evals) : ~json.evals[i].bad
    THEN LET rubric == json.evals
             sorted_evals == StableSortDesc(rubric, [i \in 1..Len(rubric) |-> RawScore(rubric[i])])
         IN  SelectSeq2(sorted_evals, 1, <<>>)
    ELSE <<>>

Stage2Result(model, reply) ==
    LET fromRubric == RubricRanking(reply.json)
    IN  [model |-> model,
         ranking |-> reply.text,
         parsed_ranking |-> IF fromRubric = <<>>
                            THEN parse_ranking_from_text(reply.text)
                            ELSE fromRubric,
         rubric |-> RubricOf(reply.json)]

LabelToModelFirst(s1) ==
    [l \in {Letters[i] : i \in 1..Len(s1)} |-> s1[1].model]

\* labels = [chr(65 + i) ...]; label_to_model = {label: result.model for zip(...)}
LabelToModel(s1) ==
    [l \in {Letters[i] : i \in 1..Len(s1)} |->
        s1[CHOOSE i \in 1..Len(s1) : Letters[i] = l].model]

RECURSIVE FormatResponses(_, _, _, _)
FormatResponses(models, responses, i, acc) ==
    IF i > Len(models) THEN acc
    ELSE FormatResponses(models, responses, i + 1,
             IF responses[i].ok
             THEN Append(acc, Stage2Result(models[i], responses[i]))
             ELSE acc)

\* responses[i] is what query_models_parallel maps council_models[i] to
stage2_collect_rankings(s1, council_models, responses) ==
    [results |-> FormatResponses(council_models, responses, 1, <<>>),
     label_to_model |-> LabelToModel(s1)]

RECURSIVE Stage1FormatAll(_, _, _, _)
Stage1FormatAll(models, outcome, i, acc) ==
    IF i > Len(models) THEN acc
    ELSE Stage1FormatAll(models, outcome, i + 1,
             Append(acc, [model |-> models[i], response |-> "content"]))

\* the formatting loop of stage1_collect_responses; outcome[i] in {"ok","fail"}
RECURSIVE Stage1Format(_, _, _, _)
Stage1Format(models, outcome, i, acc) ==
    IF i > Len(models) THEN acc
    ELSE Stage1Format(models, outcome, i + 1,
             IF outcome[i] = "ok"
             THEN Append(acc, [model |-> models[i], response |-> "content"])
             ELSE acc)

stage1_collect_responses(council_models, outcome) ==
    Stage1Format(council_models, outcome, 1, <<>>)

----------------------------------------------------------------------------
(* calculate_aggregate_rankings *)

\* model_scores[m] += s; model_counts[m] += 1, on dicts that keep insertion order
AddScore(acc, m, s) ==
    IF \E i \in 1..Len(acc) : acc[i].model = m
    THEN [i \in 1..Len(acc) |->
            IF acc[i].model = m
            THEN [acc[i] EXCEPT !.total_score = @ + s, !.rankings_count = @ + 1]
            ELSE acc[i]]
    ELSE Append(acc, [model |-> m, total_score |-> s, rankings_count |-> 1])

WeightAlwaysPeer(evaluator_model, subject_model) == 2

\* weight = 0.5 if evaluator_model == subject_model else 1.0, doubled
Weight(evaluator_model, subject_model) ==
    IF evaluator_model = subject_model THEN 1 ELSE 2

MockScoreZeroBased(num_options, position) == (num_options - position) * 100

\* mock_score = float((num_options - position + 1) * 10), in tenths
MockScore(num_options, position) == (num_options - position + 1) * 100

\* the rubric branch over the entries from index i on; exc = an entry raised
RECURSIVE RubricFold(_, _, _, _, _)
RubricFold(acc, rubric, i, evaluator_model, l2m) ==
    IF i > Len(rubric) THEN [exc |-> FALSE, list |-> acc]
    ELSE LET ev == rubric[i]
         IN  IF ev.bad THEN [exc |-> TRUE, list |-> acc]
             ELSE IF ev.label \in DOMAIN l2m
                  THEN LET subject_model == l2m[ev.label]
                           weighted_score == RawScore(ev) * Weight(evaluator_model, subject_model)
                       IN  RubricFold(AddScore(acc, subject_model, weighted_score),
                                      rubric, i + 1, evaluator_model, l2m)
                  ELSE RubricFold(acc, rubric, i + 1, evaluator_model, l2m)

\* the fallback branch over parsed_ranking from 1-based position p on
RECURSIVE OrdinalFold(_, _, _, _, _)
OrdinalFold(acc, parsed_ranking, p, evaluator_model, l2m) ==
    IF p > Len(parsed_ranking) THEN acc
    ELSE LET label == parsed_ranking[p]
         IN  IF label \in DOMAIN l2m
             THEN LET subject_model == l2m[label]
                      num_options == Cardinality(DOMAIN l2m)
                      s == MockScore(num_options, p) * Weight(evaluator_model, subject_model)
                  IN  OrdinalFold(AddScore(acc, subject_model, s),
                                  parsed_ranking, p + 1, evaluator_model, l2m)
             ELSE OrdinalFold(acc, parsed_ranking, p + 1, evaluator_model, l2m)

\* the loop over stage2_results from index k on
RECURSIVE Accumulate(_, _, _, _)
Accumulate(acc, s2, k, l2m) ==
    IF k > Len(s2) THEN [exc |-> FALSE, list |-> acc]
    ELSE LET ranking == s2[k]
         IN  IF ranking.rubric.present /\ ranking.rubric.entries # <<>>
             THEN LET r == RubricFold(acc, ranking.rubric.entries, 1, ranking.model, l2m)
                  IN  IF r.exc THEN r ELSE Accumulate(r.list, s2, k + 1, l2m)
             ELSE LET parsed_ranking ==
                          IF ranking.parsed_ranking = <<>>
                          THEN parse_ranking_from_text(ranking.ranking)
                          ELSE ranking.parsed_ranking
                  IN  Accumulate(OrdinalFold(acc, parsed_ranking, 1, ranking.model, l2m),
                                 s2, k + 1, l2m)

\* exc = the call raised; list = the aggregate, sorted by total_score descending
calculate_aggregate_rankings(s2, l2m) ==
    LET r == Accumulate(<<>>, s2, 1, l2m)
    IN  IF r.exc THEN [exc |-> TRUE, list |-> <<>>]
        ELSE [exc |-> FALSE,
              list |-> StableSortDesc(r.list,
                          [i \in 1..Len(r.list) |-> r.list[i].total_score])]

----------------------------------------------------------------------------
(* Configuration (backend/config.py) and get_council_for_query *)

COUNCIL_MODELS == <<"openai/gpt-5.1", "google/gemini-3-pro-preview",
                    "anthropic/claude-sonnet-4.5", "x-ai/grok-4">>

CategoryOrder == <<"CODING", "MATH", "CREATIVE_WRITING", "FACTUAL_RESEARCH",
                   "REASONING", "GENERAL">>

Categories == Range(CategoryOrder)

COUNCIL_PRESETS ==
    [c \in Categories |->
        CASE c = "CODING" -> <<"deepseek/deepseek-coder", "anthropic/claude-3.5-sonnet",
                               "openai/gpt-4o">>
          [] c = "MATH" -> <<"openai/o1-mini", "google/gemini-1.5-pro",
                             "anthropic/claude-3.5-sonnet">>
          [] c = "CREATIVE_WRITING" -> <<"anthropic/claude-3-opus", "google/gemini-2.5-flash",
                                         "mistralai/mixtral-8x7b-instruct">>
          [] c = "FACTUAL_RESEARCH" -> <<"perplexity/llama-3.1-sonar-large-128k-online",
                                         "openai/gpt-4o", "x-ai/grok-2">>
          [] c = "REASONING" -> <<"openai/o1", "anthropic/claude-3.5-sonnet",
                                  "google/gemini-1.5-pro">>
          [] OTHER -> COUNCIL_MODELS]

CHAIRMAN_MODEL == "google/gemini-3-pro-preview"

\* an answer of the routing model: ok = a result came back; names = the category
\* names that occur in the first line of its upper-cased content
NoAnswer == [ok |-> FALSE, names |-> {}]

Answer(ns) == [ok |-> TRUE, names |-> ns]

classify_query(response) ==
    IF response.ok /\ \E k \in 1..Len(CategoryOrder) : CategoryOrder[k] \in response.names
    THEN CategoryOrder[CHOOSE k \in 1..Len(CategoryOrder) :
             /\ CategoryOrder[k] \in response.names
             /\ \A h \in 1..(k - 1) : CategoryOrder[h] \notin response.names]
    ELSE "GENERAL"

get_council_always_classified(user_override, response) ==
    LET cat == classify_query(response)
    IN  [models |-> COUNCIL_PRESETS[cat], tag |-> cat, calls |-> 1]

\* calls = the number of classify_query calls made on the way
get_council_for_query(user_override, response) ==
    IF Len(user_override) > 0
    THEN [models |-> user_override, tag |-> "MANUAL_OVERRIDE", calls |-> 0]
    ELSE LET cat == classify_query(response)
         IN  [models |-> COUNCIL_PRESETS[cat], tag |-> cat, calls |-> 1]

----------------------------------------------------------------------------
(* Inputs of the drivers *)

Models == {"m1", "m2", "m3"}

\* request.council_models: absent or empty (<<>>), or a panel of distinct identifiers
Overrides == {o \in SeqsUpTo(Models, MaxPanel) : Injective(o)}

ClassifierAnswers == {NoAnswer, Answer({"CODING"})}

Fragments == {"x", "y"}

GoodEntries == <<Entry(FALSE, "A", 30, 10), Entry(FALSE, "B", 20, 5)>>

BadEntries == <<Entry(TRUE, "none", 0, 0)>>

\* a critique that mentions Response A, then a ranking B, A
RankingReply == Reply(<<"oth", "A", "mark", "num", "B", "num", "A">>, NoJson)

RubricReply == Reply(<<"oth">>, Evals(GoodEntries))

BadRubricReply == Reply(<<"oth">>, Evals(BadEntries))

DriverReplies == {NoReply, RankingReply, RubricReply, BadRubricReply}

MinimumError ==
    [model |-> "error",
     response |-> <<"At least two models are required for consensus. Please try again.">>]

NoResult == [model |-> "none", response |-> <<>>]

Event(t) == [type |-> t, data |-> ""]

Token(chunk) == [type |-> "stage3_token", data |-> chunk]

\* a fragment as stage3_synthesize_final yields it
Chunk(c) == [chunk |-> c]

\* the final sentinel dictionary
CompletionMarker(accumulated_text) ==
    [model |-> CHAIRMAN_MODEL, done |-> TRUE, response |-> accumulated_text]

AccumulateLast(accumulated_text, chunk) == <<chunk>>

\* accumulated_text += chunk
AccumulateText(accumulated_text, chunk) == Append(accumulated_text, chunk)

Round2EventsNoComplete == <<Event("stage3_start")>>

\* what event_generator emits between the aggregate and the Round-3 call
Round2Events == <<Event("stage2_complete"), Event("stage3_start")>>

OnExceptionSilent(emitted) == emitted

\* except Exception: the error event, after which event_generator returns
OnException(emitted) == Append(emitted, Event("error"))

Pending(models) == [i \in 1..Len(models) |-> "pending"]

Settled(calls) == \A i \in 1..Len(calls) : calls[i] # "pending"

NotAwaited(calls) == TRUE

\* responses = await query_models_parallel(...): the round's coroutine goes on
\* when the collaborator has settled every call of the fan-out
Awaited(calls) == Settled(calls)

----------------------------------------------------------------------------
(* The drivers: send_message -> run_full_council (mode "full") and          *)
(* send_message_stream.event_generator (mode "stream")                      *)

\* calculate_elo_ratings has not been called
NoLeaderboard == [results |-> <<>>, applied |-> <<>>]

\* the tables the Elo computation reads, and its result
store == <<model_responses, rankings, leaderboard>>

\* what the drivers' steps before Round 3 leave alone
\* the classifier calls of get_council_for_query
router == <<router_calls, router_reply>>

harness == <<text, parsed, yielded, store, router, requests>>

\* no call issued, nothing computed, nothing emitted
NothingRun ==
    /\ category = "none"
    /\ call1 = <<>>
    /\ call2 = <<>>
    /\ aggregate = <<>>
    /\ stream = <<>>
    /\ accumulated = <<>>
    /\ yielded = <<>>
    /\ model_responses = <<>>
    /\ rankings = <<>>
    /\ leaderboard = NoLeaderboard
    /\ router_calls = 0
    /\ router_reply = NoAnswer
    /\ requests = <<>>
    /\ call3 = 0
    /\ stage3_result = NoResult
    /\ metadata = <<>>
    /\ events = <<>>

Init ==
    /\ mode \in {"full", "stream"}
    /\ pc = "start"
    /\ override \in Overrides
    /\ is_first_message \in BOOLEAN
    /\ messages = IF is_first_message THEN <<>> ELSE <<"user", "assistant">>
    /\ council = <<>>
    /\ stage1_results = <<>>
    /\ stage2_results = <<>>
    /\ label_to_model = <<>>
    /\ reply2 = <<>>
    /\ text = <<>>
    /\ parsed = <<>>
    /\ NothingRun

\* storage.add_user_message, the first statement of both handlers
AddUserMessage ==
    /\ mode \in {"full", "stream"}
    /\ pc = "start"
    /\ messages' = Append(messages, "user")
    /\ pc' = "resolve"
    /\ UNCHANGED <<mode, override, council, category, call1, call2, reply2,
                   stage1_results, stage2_results, label_to_model, aggregate, stream,
                   accumulated, call3, stage3_result, metadata, events,
                   is_first_message, harness>>

\* get_council_for_query returns; Round 1 is fanned out
Resolve ==
    /\ pc = "resolve"
    /\ \E a \in ClassifierAnswers :
          LET r == get_council_for_query(override, a)
          IN  /\ council' = r.models
              /\ category' = r.tag
              /\ call1' = Pending(r.models)
              /\ router_calls' = router_calls + r.calls
              /\ router_reply' = IF r.calls = 0 THEN router_reply ELSE a
    /\ events' = IF mode = "stream" THEN Append(events, Event("stage1_start")) ELSE events
    /\ pc' = "round1"
    /\ UNCHANGED <<mode, override, call2, reply2, stage1_results, stage2_results,
                   label_to_model, aggregate, stream, accumulated, call3,
                   stage3_result, metadata, messages, is_first_message, text, parsed,
                   yielded, store, requests>>

\* one Round-1 call settles: a result, or absent on error or timeout
Settle1 ==
    /\ pc = "round1"
    /\ \E i \in 1..Len(call1) :
          /\ call1[i] = "pending"
          /\ \E o \in {"ok", "fail"} : call1' = [call1 EXCEPT ![i] = o]
    /\ UNCHANGED <<mode, pc, override, council, category, call2, reply2,
                   stage1_results, stage2_results, label_to_model, aggregate, stream,
                   accumulated, call3, stage3_result, metadata, events, messages,
                   is_first_message, harness>>

TooFewOffByOne(s1) == Len(s1) < 1

\* if len(stage1_results) < 2
TooFew(s1) == Len(s1) < 2

\* run_full_council after Round 1 joined: the minimum guard, else Round 2 is fanned out;
\* on the guard send_message persists the returned result
Join1Full ==
    /\ mode = "full"
    /\ pc = "round1"
    /\ Awaited(call1)
    /\ LET s1 == stage1_collect_responses(council, call1)
       IN  /\ stage1_results' = s1
           /\ IF TooFew(s1)
              THEN /\ stage3_result' = MinimumError
                   /\ metadata' = [detected_category |-> category]
                   /\ messages' = Append(messages, "assistant")
                   /\ pc' = "done"
                   /\ UNCHANGED <<call2, reply2>>
              ELSE /\ call2' = Pending(council)
                   /\ reply2' = [i \in 1..Len(council) |-> NoReply]
                   /\ pc' = "round2"
                   /\ UNCHANGED <<stage3_result, metadata, messages>>
    /\ UNCHANGED <<mode, override, council, category, call1, stage2_results,
                   label_to_model, aggregate, stream, accumulated, call3, events,
                   is_first_message, harness>>

\* event_generator after Round 1 joined: Round 2 is fanned out
Join1Stream ==
    /\ mode = "stream"
    /\ pc = "round1"
    /\ Awaited(call1)
    /\ stage1_results' = stage1_collect_responses(council, call1)
    /\ events' = events \o <<Event("stage1_complete"), Event("stage2_start")>>
    /\ call2' = Pending(council)
    /\ reply2' = [i \in 1..Len(council) |-> NoReply]
    /\ pc' = "round2"
    /\ UNCHANGED <<mode, override, council, category, call1, stage2_results,
                   label_to_model, aggregate, stream, accumulated, call3,
                   stage3_result, metadata, messages, is_first_message, harness>>

\* one Round-2 call settles with a reply, or absent
Settle2 ==
    /\ pc = "round2"
    /\ \E i \in 1..Len(call2) :
          /\ call2[i] = "pending"
          /\ call2' = [call2 EXCEPT ![i] = "done"]
          /\ \E r \in DriverReplies : reply2' = [reply2 EXCEPT ![i] = r]
    /\ UNCHANGED <<mode, pc, override, council, category, call1, stage1_results,
                   stage2_results, label_to_model, aggregate, stream, accumulated,
                   call3, stage3_result, metadata, events, messages,
                   is_first_message, harness>>

\* Round 2 joined: the replies are formatted, the aggregate is computed and the
\* streaming call of Round 3 is issued; an exception of the aggregate ends the request
Join2 ==
    /\ pc = "round2"
    /\ Awaited(call2)
    /\ LET r == stage2_collect_rankings(stage1_results, council, reply2)
           agg == calculate_aggregate_rankings(r.results, r.label_to_model)
       IN  /\ stage2_results' = r.results
           /\ label_to_model' = r.label_to_model
           /\ IF agg.exc
              THEN /\ pc' = IF mode = "stream" THEN "failed" ELSE "raised"
                   /\ events' = IF mode = "stream" THEN OnException(events) ELSE events
                   /\ UNCHANGED <<aggregate, call3>>
              ELSE /\ aggregate' = agg.list
                   /\ call3' = call3 + 1
                   /\ pc' = "round3"
                   /\ events' = IF mode = "stream" THEN events \o Round2Events
                                 ELSE events
    /\ UNCHANGED <<mode, override, council, category, call1, call2, reply2,
                   stage1_results, stream, accumulated, stage3_result, metadata,
                   messages, is_first_message, harness>>

\* stage3_synthesize_final receives a fragment and yields it to its consumer, which
\* forwards it as a token event (event_generator) or drops it (run_full_council)
Fragment ==
    /\ pc = "round3"
    /\ Len(stream) < MaxFrag
    /\ \E chunk \in Fragments :
          /\ stream' = Append(stream, chunk)
          /\ accumulated' = AccumulateText(accumulated, chunk)
          /\ yielded' = Append(yielded, Chunk(chunk))
          /\ events' = IF mode = "stream" THEN Append(events, Token(chunk)) ELSE events
    /\ UNCHANGED <<mode, pc, override, council, category, call1, call2, reply2,
                   stage1_results, stage2_results, label_to_model, aggregate, call3,
                   stage3_result, metadata, messages, is_first_message, text, parsed,
                   store, router, requests>>

\* the streaming call fails before its end
StreamFail ==
    /\ pc = "round3"
    /\ pc' = IF mode = "stream" THEN "failed" ELSE "raised"
    /\ events' = IF mode = "stream" THEN OnException(events) ELSE events
    /\ UNCHANGED <<mode, override, council, category, call1, call2, reply2,
                   stage1_results, stage2_results, label_to_model, aggregate, stream,
                   accumulated, call3, stage3_result, metadata, messages,
                   is_first_message, harness>>

\* the stream ends: the completion marker; run_full_council returns and send_message
\* persists the turn, event_generator goes on to the title or to persistence
StreamEnd ==
    /\ pc = "round3"
    /\ yielded' = Append(yielded, CompletionMarker(accumulated))
    /\ stage3_result' =
          LET chunk == CompletionMarker(accumulated)
          IN  IF mode = "full" THEN chunk
              ELSE [model |-> chunk.model, response |-> chunk.response]
    /\ IF mode = "full"
       THEN /\ metadata' = [label_to_model |-> label_to_model,
                             aggregate_rankings |-> aggregate,
                             detected_category |-> category]
            /\ messages' = Append(messages, "assistant")
            /\ pc' = "done"
            /\ UNCHANGED events
       ELSE /\ UNCHANGED metadata
            /\ IF is_first_message
               THEN /\ events' = Append(events, Event("stage3_complete"))
                    /\ pc' = "title"
                    /\ UNCHANGED messages
               ELSE /\ events' = events \o <<Event("stage3_complete"), Event("complete")>>
                    /\ messages' = Append(messages, "assistant")
                    /\ pc' = "done"
    /\ UNCHANGED <<mode, override, council, category, call1, call2, reply2,
                   stage1_results, stage2_results, label_to_model, aggregate, stream,
                   accumulated, call3, is_first_message, text, parsed, store, router, requests>>

\* the title task is joined, the turn is persisted, the run completes
TitleDone ==
    /\ pc = "title"
    /\ events' = events \o <<Event("title_complete"), Event("complete")>>
    /\ messages' = Append(messages, "assistant")
    /\ pc' = "done"
    /\ UNCHANGED <<mode, override, council, category, call1, call2, reply2,
                   stage1_results, stage2_results, label_to_model, aggregate, stream,
                   accumulated, call3, stage3_result, metadata, is_first_message,
                   harness>>

Next ==
    \/ AddUserMessage
    \/ Resolve
    \/ Settle1
    \/ Join1Full
    \/ Join1Stream
    \/ Settle2
    \/ Join2
    \/ Fragment
    \/ StreamFail
    \/ StreamEnd
    \/ TitleDone

Spec == Init /\ [][Next]_vars

----------------------------------------------------------------------------
(* parse_ranking_from_text and the per-reply formatting of                  *)
(* stage2_collect_rankings, applied to every text of the bounded set        *)

TwoCandidates ==
    <<[model |-> "m1", response |-> "content"], [model |-> "m2", response |-> "content"]>>

InitParse ==
    /\ mode = "parse"
    /\ pc = "input"
    /\ text \in Texts
    /\ parsed = <<>>
    /\ override = <<>>
    /\ is_first_message = TRUE
    /\ messages = <<>>
    /\ council = <<>>
    /\ stage1_results = <<>>
    /\ stage2_results = <<>>
    /\ label_to_model = <<>>
    /\ reply2 = <<>>
    /\ NothingRun

ParseText ==
    /\ mode = "parse"
    /\ pc = "input"
    /\ parsed' = parse_ranking_from_text(text)
    /\ pc' = "parsed"
    /\ UNCHANGED <<mode, override, council, category, call1, call2, reply2,
                   stage1_results, stage2_results, label_to_model, aggregate, stream,
                   accumulated, call3, stage3_result, metadata, events, messages,
                   is_first_message, text, yielded, store, router, requests>>

\* Round 2 of a panel m1, m2 whose first member replies with the text, which is no
\* rubric (json.loads fails, or gives no "evaluations"), and whose second is dropped
EvaluateText ==
    /\ mode = "parse"
    /\ pc = "parsed"
    /\ \E j \in {NoJson, OtherJson} :
          LET replies == <<Reply(text, j), NoReply>>
              r == stage2_collect_rankings(TwoCandidates, <<"m1", "m2">>, replies)
          IN  /\ reply2' = replies
              /\ stage2_results' = r.results
              /\ label_to_model' = r.label_to_model
    /\ council' = <<"m1", "m2">>
    /\ stage1_results' = TwoCandidates
    /\ pc' = "evaluated"
    /\ UNCHANGED <<mode, override, category, call1, call2, aggregate, stream,
                   accumulated, call3, stage3_result, metadata, events, messages,
                   is_first_message, harness>>

NextParse == ParseText \/ EvaluateText

SpecParse == InitParse /\ [][NextParse]_vars

----------------------------------------------------------------------------
(* calculate_aggregate_rankings on bounded Round-2 outputs                  *)

ModelOrder == <<"m1", "m2", "m3">>

Candidates(n) == [i \in 1..n |-> [model |-> ModelOrder[i], response |-> "content"]]

SampleRubrics ==
    {<<>>,
     GoodEntries,
     <<Entry(FALSE, "B", 12, 10), Entry(FALSE, "none", 40, 10), Entry(FALSE, "A", 24, 5)>>,
     BadEntries}

\* what one evaluator can hand over: an ordinal ranking without rubric, an empty
\* parsed ranking beside a text that still holds a ranking, or a rubric
Evaluations ==
    {[ranking |-> <<"oth">>, parsed_ranking |-> pr, rubric |-> NoRubric] :
        pr \in SeqsUpTo(TextLabels, MaxRank)}
    \cup {[ranking |-> <<"mark", "num", "B", "num", "sp", "A">>, parsed_ranking |-> <<>>,
           rubric |-> NoRubric]}
    \cup {[ranking |-> <<"oth">>, parsed_ranking |-> RubricRanking(Evals(es)),
           rubric |-> RubricOf(Evals(es))] : es \in SampleRubrics}

WithModel(m, e) ==
    [model |-> m, ranking |-> e.ranking, parsed_ranking |-> e.parsed_ranking,
     rubric |-> e.rubric]

\* the evaluators of one Round 2 are distinct (they are the keys of one mapping)
EvaluatorOrders == {o \in SeqsUpTo(Models, MaxEval) : Injective(o)}

InitAggregate ==
    /\ mode = "aggregate"
    /\ pc = "input"
    /\ \E n \in 1..MaxPanel :
          /\ stage1_results = Candidates(n)
          /\ label_to_model = LabelToModel(Candidates(n))
    /\ \E ms \in EvaluatorOrders : \E es \in [1..Len(ms) -> Evaluations] :
          stage2_results = [k \in 1..Len(ms) |-> WithModel(ms[k], es[k])]
    /\ text = <<>>
    /\ parsed = <<>>
    /\ override = <<>>
    /\ is_first_message = TRUE
    /\ messages = <<>>
    /\ council = <<>>
    /\ reply2 = <<>>
    /\ NothingRun

Aggregate ==
    /\ mode = "aggregate"
    /\ pc = "input"
    /\ LET agg == calculate_aggregate_rankings(stage2_results, label_to_model)
       IN  /\ aggregate' = agg.list
           /\ pc' = IF agg.exc THEN "raised" ELSE "done"
    /\ UNCHANGED <<mode, override, council, category, call1, call2, reply2,
                   stage1_results, stage2_results, label_to_model, stream,
                   accumulated, call3, stage3_result, metadata, events, messages,
                   is_first_message, harness>>

NextAggregate == Aggregate

SpecAggregate == InitAggregate /\ [][NextAggregate]_vars

----------------------------------------------------------------------------
(* The per-reply formatting of stage2_collect_rankings on bounded rubrics   *)

MaxEntries == 3

\* the entries a decoded "evaluations" array can hold: dicts of numbers with or
\* without a response_label (products 100, 100, 200 give ties), and entries whose
\* use in the sort key raises, labelled or not
RubricEntries ==
    {Entry(FALSE, l, sc[1], sc[2]) :
        l \in {"none", "A", "B"}, sc \in {<<10, 10>>, <<20, 5>>, <<20, 10>>}}
    \cup {Entry(TRUE, "none", 0, 0), Entry(TRUE, "A", 0, 0)}

\* the reply's content seen by the text parse: no ranking in it, or one
RubricTexts == {<<"oth">>, <<"mark", "num", "B", "num", "A">>}

InitRubric ==
    /\ mode = "rubric"
    /\ pc = "input"
    /\ \E t \in RubricTexts :
          \/ \E j \in {NoJson, OtherJson} : reply2 = <<Reply(t, j)>>
          \/ \E n \in 0..MaxEntries : \E es \in [1..n -> RubricEntries] :
                 reply2 = <<Reply(t, Evals(es))>>
    /\ text = <<>>
    /\ parsed = <<>>
    /\ override = <<>>
    /\ is_first_message = TRUE
    /\ messages = <<>>
    /\ council = <<"m1">>
    /\ stage1_results = TwoCandidates
    /\ stage2_results = <<>>
    /\ label_to_model = <<>>
    /\ NothingRun

\* Round 2 of a panel of one evaluator, m1, over two candidates
EvaluateRubric ==
    /\ mode = "rubric"
    /\ pc = "input"
    /\ LET r == stage2_collect_rankings(stage1_results, council, reply2)
       IN  /\ stage2_results' = r.results
           /\ label_to_model' = r.label_to_model
    /\ pc' = "evaluated"
    /\ UNCHANGED <<mode, override, council, category, call1, call2, reply2,
                   stage1_results, aggregate, stream, accumulated, call3,
                   stage3_result, metadata, events, messages, is_first_message,
                   harness>>

NextRubric == EvaluateRubric

SpecRubric == InitRubric /\ [][NextRubric]_vars

----------------------------------------------------------------------------
(* storage.add_assistant_message and storage.calculate_elo_ratings          *)
(*                                                                         *)
(* Ratings are integers in thousandths of a point (1000.0 is 1000000).     *)
(* The expected score 1 / (1 + 10 ** (x / 400)) is read off a table of its *)
(* values at every 25 points of x, in millionths, with linear              *)
(* interpolation in between: within 0.00025 of the float value for         *)
(* |x| <= 400 points, and constant beyond.                                 *)

MaxMsgs == 2

\* the rank position of a rubric entry whose label is not in the parsed ranking
Sentinel == 99

\* elo default, 1000.0
BaseRating == 1000000

K == 32

\* evaluator identifiers compare as strings: m1 < m2 < m3
ModelIndex(m) == CHOOSE i \in 1..Len(ModelOrder) : ModelOrder[i] = m

\* f"unknown_{label_short}", label_short the rubric entry's response_label or ''
UnknownShort(label) == IF label = "none" THEN "unknown_" ELSE "unknown_" \o label

\* f"unknown_{label}", label a token "Response <letter>" of the parsed ranking
UnknownLabel(label) == "unknown_Response " \o label

\* parsed_ranking.index(label) + 1, or 99 on ValueError
RankPos(parsed_ranking, label) ==
    IF \E p \in 1..Len(parsed_ranking) : parsed_ranking[p] = label
    THEN CHOOSE p \in 1..Len(parsed_ranking) :
             /\ parsed_ranking[p] = label
             /\ \A h \in 1..(p - 1) : parsed_ranking[h] # label
    ELSE Sentinel

\* the rows of table rankings that one Round-2 output r adds for message msg_id
RankingRowsOf(msg_id, r, l2m) ==
    IF r.rubric.present /\ r.rubric.entries # <<>>
    THEN [i \in 1..Len(r.rubric.entries) |->
            LET ev == r.rubric.entries[i]
            IN  [message_id |-> msg_id,
                 evaluator_model |-> r.model,
                 subject_model |-> IF ev.label \in DOMAIN l2m THEN l2m[ev.label]
                                   ELSE UnknownShort(ev.label),
                 rank_position |-> RankPos(r.parsed_ranking, ev.label)]]
    ELSE [i \in 1..Len(r.parsed_ranking) |->
            LET label == r.parsed_ranking[i]
            IN  [message_id |-> msg_id,
                 evaluator_model |-> r.model,
                 subject_model |-> IF label \in DOMAIN l2m THEN l2m[label]
                                   ELSE UnknownLabel(label),
                 rank_position |-> i]]

RECURSIVE Stage2Rows(_, _, _, _, _)
Stage2Rows(msg_id, stage2, l2m, k, acc) ==
    IF k > Len(stage2) THEN acc
    ELSE Stage2Rows(msg_id, stage2, l2m, k + 1,
                    acc \o RankingRowsOf(msg_id, stage2[k], l2m))

\* the rows add_assistant_message inserts for the message it gave the id msg_id
add_assistant_message(msg_id, stage1, stage2) ==
    [model_responses |->
        [i \in 1..Len(stage1) |-> [message_id |-> msg_id, model |-> stage1[i].model]],
     rankings |-> Stage2Rows(msg_id, stage2, LabelToModel(stage1), 1, <<>>)]

RowBeforeDesc(a, b) ==
    \/ a.message_id > b.message_id
    \/ /\ a.message_id = b.message_id
       /\ ModelIndex(a.evaluator_model) > ModelIndex(b.evaluator_model)
    \/ /\ a.message_id = b.message_id
       /\ a.evaluator_model = b.evaluator_model
       /\ a.rank_position > b.rank_position

\* ORDER BY message_id, evaluator_model, rank_position ASC
RowBefore(a, b) ==
    \/ a.message_id < b.message_id
    \/ /\ a.message_id = b.message_id
       /\ ModelIndex(a.evaluator_model) < ModelIndex(b.evaluator_model)
    \/ /\ a.message_id = b.message_id
       /\ a.evaluator_model = b.evaluator_model
       /\ a.rank_position < b.rank_position

\* one row put into an ordered list, behind every row the ORDER BY does not put
\* after it
InsertRow(sorted, r) ==
    LET later == {i \in 1..Len(sorted) : RowBefore(r, sorted[i])}
        k == Len(sorted) - Cardinality(later)
    IN  SubSeq(sorted, 1, k) \o <<r>> \o SubSeq(sorted, k + 1, Len(sorted))

RECURSIVE SortRows(_, _, _)
SortRows(rows, k, sorted) ==
    IF k > Len(rows) THEN sorted
    ELSE SortRows(rows, k + 1, InsertRow(sorted, rows[k]))

\* the first SELECT: rows with rank_position != 99, ordered; rows that the ORDER BY
\* does not tell apart come in the order of their insertion
ranking_rows(table) ==
    SortRows(SelectSeq(table, LAMBDA r : r.rank_position # Sentinel), 1, <<>>)

\* the keys of groups, in the order of their first row
RECURSIVE GroupKeys(_, _, _)
GroupKeys(rows, k, acc) ==
    IF k > Len(rows) THEN acc
    ELSE LET key == <<rows[k].message_id, rows[k].evaluator_model>>
         IN  GroupKeys(rows, k + 1,
                       IF \E g \in 1..Len(acc) : acc[g] = key THEN acc
                       ELSE Append(acc, key))

\* 1000000 / (1 + 10 ** (25 * k / 400)) for k = -16 .. 16, rounded
ExpectedTable ==
    <<909091, 896477, 882338, 866557, 849020, 829633, 808318, 785027, 759747,
      732507, 703385, 672510, 640065, 606288, 571463, 535916, 500000, 464084,
      428537, 393712, 359935, 327490, 296615, 267493, 240253, 214973, 191682,
      170367, 150980, 133443, 117662, 103523, 90909>>

\* 1.0 / (1.0 + 10.0 ** (x / 400.0)) in millionths, x in thousandths of a point
Expected(x) ==
    LET step == 25000
        half == (Len(ExpectedTable) - 1) \div 2
        c == IF x < -(half * step) THEN -(half * step)
             ELSE IF x > half * step THEN half * step ELSE x
        k == IF c = half * step THEN half - 1 ELSE c \div step
        lo == ExpectedTable[k + half + 1]
        hi == ExpectedTable[k + half + 2]
    IN  lo + ((hi - lo) * (c - step * k)) \div step

\* the position of model m in the elo dict, 0 when absent
Slot(board, m) ==
    IF \E i \in 1..Len(board) : board[i].model = m
    THEN CHOOSE i \in 1..Len(board) : board[i].model = m
    ELSE 0

\* a model enters with the rating the last call returned for it, when there is one
TouchPersisted(board, m) ==
    IF Slot(board, m) # 0 THEN board
    ELSE LET last == leaderboard.results
             known == {i \in 1..Len(last) : last[i].model = m}
         IN  Append(board, [model |-> m,
                            elo |-> IF known = {} THEN BaseRating
                                    ELSE 1000 * last[CHOOSE i \in known : TRUE].elo,
                            wins |-> 0, losses |-> 0])

\* elo[m] on the defaultdict: a model not yet in it enters with 1000.0
Touch(board, m) ==
    IF Slot(board, m) # 0 THEN board
    ELSE Append(board, [model |-> m, elo |-> BaseRating, wins |-> 0, losses |-> 0])

NeverDraw(rank_a, rank_b) == FALSE

\* if rank_a == rank_b: continue
IsDraw(rank_a, rank_b) == rank_a = rank_b

\* one pairwise update; the loser's new rating is written after the winner's
Update(board, winner, loser) ==
    LET b == Touch(Touch(board, winner), loser)
        rating_w == b[Slot(b, winner)].elo
        rating_l == b[Slot(b, loser)].elo
        expected_w == Expected(rating_l - rating_w)
        expected_l == Expected(rating_w - rating_l)
        won == [b EXCEPT ![Slot(b, winner)].elo =
                             rating_w + (K * (1000000 - expected_w)) \div 1000]
        lost == [won EXCEPT ![Slot(b, loser)].elo =
                                rating_l - (K * expected_l) \div 1000]
    IN  [lost EXCEPT ![Slot(b, winner)].wins = @ + 1,
                     ![Slot(b, loser)].losses = @ + 1]

\* the body of the loops over i and j for the rows a = ranks[i], b = ranks[j]
Play(st, a, b) ==
    IF IsDraw(a.rank_position, b.rank_position) THEN st
    ELSE LET a_wins == a.rank_position < b.rank_position
             winner == IF a_wins THEN a.subject_model ELSE b.subject_model
             loser == IF a_wins THEN b.subject_model ELSE a.subject_model
         IN  [board |-> Update(st.board, winner, loser),
              applied |-> Append(st.applied,
                             [message_id |-> a.message_id,
                              evaluator_model |-> a.evaluator_model,
                              winner |-> winner, loser |-> loser,
                              rank_a |-> a.rank_position,
                              rank_b |-> b.rank_position])]

\* for i in range(n): for j in range(i + 1, n)
RECURSIVE PairLoop(_, _, _, _)
PairLoop(st, ranks, i, j) ==
    IF i > Len(ranks) THEN st
    ELSE IF j > Len(ranks) THEN PairLoop(st, ranks, i + 1, i + 2)
    ELSE PairLoop(Play(st, ranks[i], ranks[j]), ranks, i, j + 1)

\* for (msg_id, eval_model), ranks in groups.items()
RECURSIVE GroupLoop(_, _, _, _)
GroupLoop(st, rows, keys, g) ==
    IF g > Len(keys) THEN st
    ELSE LET ranks == SelectSeq(rows, LAMBDA r :
                          <<r.message_id, r.evaluator_model>> = keys[g])
         IN  GroupLoop(PairLoop(st, ranks, 1, 2), rows, keys, g + 1)

InitialBoardEmpty(stage1_rows, k, board) == <<>>

\* for r in stage1_rows: _ = elo[r["model"]]
RECURSIVE InitialBoard(_, _, _)
InitialBoard(stage1_rows, k, board) ==
    IF k > Len(stage1_rows) THEN board
    ELSE InitialBoard(stage1_rows, k + 1, Touch(board, stage1_rows[k].model))

\* appearances[model]
Appearances(stage1_rows, m) ==
    Cardinality({k \in 1..Len(stage1_rows) : stage1_rows[k].model = m})

\* Python round(): to the nearest integer, a half to the even one
Round(rating) ==
    LET q == rating \div 1000
        rest == rating % 1000
    IN  IF rest > 500 \/ (rest = 500 /\ q % 2 = 1) THEN q + 1 ELSE q

\* results, sorted by the rounded rating, with the updates applied on the way
calculate_elo_ratings(rankings_table, stage1_rows) ==
    LET rows == ranking_rows(rankings_table)
        st == GroupLoop([board |-> InitialBoard(stage1_rows, 1, <<>>), applied |-> <<>>],
                        rows, GroupKeys(rows, 1, <<>>), 1)
        results == [i \in 1..Len(st.board) |->
                      [model |-> st.board[i].model,
                       elo |-> Round(st.board[i].elo),
                       wins |-> st.board[i].wins,
                       losses |-> st.board[i].losses,
                       appearances |-> Appearances(stage1_rows, st.board[i].model)]]
    IN  [results |-> StableSortDesc(results, [i \in 1..Len(results) |-> results[i].elo]),
         applied |-> st.applied]

\* what a Round-2 evaluator can reply: a ranking B, A; a ranking that names
\* Response A twice; a rubric that scores Response A twice; a rubric with an entry
\* without label
EloReplies ==
    {RankingReply,
     Reply(<<"mark", "num", "A", "num", "A">>, NoJson),
     Reply(<<"oth">>, Evals(<<Entry(FALSE, "A", 30, 10), Entry(FALSE, "A", 20, 5)>>)),
     Reply(<<"oth">>, Evals(<<Entry(FALSE, "B", 12, 10), Entry(FALSE, "none", 40, 10),
                              Entry(FALSE, "A", 24, 5)>>))}

\* the Round-1 successes of a request: m1 alone (streaming driver), or m1 and m2
EloCandidates == {<<TwoCandidates[1]>>, TwoCandidates}

InitElo ==
    /\ mode = "elo"
    /\ pc = "store"
    /\ text = <<>>
    /\ parsed = <<>>
    /\ override = <<>>
    /\ is_first_message = TRUE
    /\ messages = <<>>
    /\ council = <<"m1", "m2">>
    /\ stage1_results = <<>>
    /\ stage2_results = <<>>
    /\ label_to_model = <<>>
    /\ reply2 = <<>>
    /\ NothingRun

\* one request is served and persisted: the user turn, then the assistant turn with
\* its Round-1 and ranking rows
Persist ==
    /\ mode = "elo"
    /\ pc = "store"
    /\ Len(messages) < 2 * MaxMsgs
    /\ \E s1 \in EloCandidates : \E replies \in [1..Len(council) -> EloReplies] :
          LET r == stage2_collect_rankings(s1, council, replies)
              msg_id == Len(messages) + 2
              rows == add_assistant_message(msg_id, s1, r.results)
          IN  /\ stage1_results' = s1
              /\ reply2' = replies
              /\ stage2_results' = r.results
              /\ label_to_model' = r.label_to_model
              /\ model_responses' = model_responses \o rows.model_responses
              /\ rankings' = rankings \o rows.rankings
    /\ messages' = messages \o <<"user", "assistant">>
    /\ UNCHANGED <<mode, pc, override, council, category, call1, call2, aggregate,
                   stream, accumulated, call3, stage3_result, metadata, events,
                   is_first_message, text, parsed, yielded, leaderboard, router, requests>>

\* GET /api/leaderboard
ComputeElo ==
    /\ mode = "elo"
    /\ pc = "store"
    /\ leaderboard' = calculate_elo_ratings(rankings, model_responses)
    /\ pc' = "computed"
    /\ UNCHANGED <<mode, override, council, category, call1, call2, reply2,
                   stage1_results, stage2_results, label_to_model, aggregate, stream,
                   accumulated, call3, stage3_result, metadata, events, messages,
                   is_first_message, text, parsed, yielded, model_responses, rankings,
                   router, requests>>

\* GET /api/leaderboard again, nothing written in between
ComputeEloAgain ==
    /\ mode = "elo"
    /\ pc = "computed"
    /\ leaderboard' = calculate_elo_ratings(rankings, model_responses)
    /\ pc' = "recomputed"
    /\ UNCHANGED <<mode, override, council, category, call1, call2, reply2,
                   stage1_results, stage2_results, label_to_model, aggregate, stream,
                   accumulated, call3, stage3_result, metadata, events, messages,
                   is_first_message, text, parsed, yielded, model_responses, rankings,
                   router, requests>>

NextElo == Persist \/ ComputeElo \/ ComputeEloAgain

SpecElo == InitElo /\ [][NextElo]_vars

----------------------------------------------------------------------------
(* get_council_for_query on every override and every router answer         *)

\* the names the first line of a router answer can hold: the categories, and a
\* word that is none of them
RouterNames == Categories \cup {"POETRY"}

InitResolve ==
    /\ mode = "resolve"
    /\ pc = "request"
    /\ override \in Overrides
    /\ text = <<>>
    /\ parsed = <<>>
    /\ is_first_message = TRUE
    /\ messages = <<>>
    /\ council = <<>>
    /\ stage1_results = <<>>
    /\ stage2_results = <<>>
    /\ label_to_model = <<>>
    /\ reply2 = <<>>
    /\ NothingRun

\* the router model, if asked, fails or answers with a line holding some names
ResolveCouncil ==
    /\ mode = "resolve"
    /\ pc = "request"
    /\ \E a \in {NoAnswer} \cup {Answer(ns) : ns \in SUBSET RouterNames} :
          LET r == get_council_for_query(override, a)
          IN  /\ council' = r.models
              /\ category' = r.tag
              /\ router_calls' = router_calls + r.calls
              /\ router_reply' = IF r.calls = 0 THEN router_reply ELSE a
    /\ pc' = "resolved"
    /\ UNCHANGED <<mode, override, call1, call2, reply2, stage1_results,
                   stage2_results, label_to_model, aggregate, stream, accumulated,
                   call3, stage3_result, metadata, events, messages,
                   is_first_message, text, parsed, yielded, store, requests>>

NextResolve == ResolveCouncil

SpecResolve == InitResolve /\ [][NextResolve]_vars

----------------------------------------------------------------------------
(* Several message requests on one conversation, served by one event loop:  *)
(* a handler runs without interruption from one await to the next           *)

MaxRequests == 2

Requests == 1..MaxRequests

Turn(role, r) == [role |-> role, request |-> r]

\* the awaits of a request after its user turn is stored, in order.
\* send_message: generate_conversation_title if first, then run_full_council
\* (get_council_for_query, Round 1, Round 2, Round 3).
\* event_generator: the same four, then the title task if first.
AwaitPoints(endpoint, first) ==
    IF endpoint = "full"
    THEN (IF first THEN <<"title">> ELSE <<>>) \o <<"resolve", "round1", "round2", "round3">>
    ELSE <<"resolve", "round1", "round2", "round3">> \o (IF first THEN <<"title">> ELSE <<>>)

InitConcurrent ==
    /\ mode = "concurrent"
    /\ pc = "serving"
    /\ messages = <<>>
    /\ requests \in [Requests -> {[endpoint |-> e, at |-> "arrived", awaiting |-> 0,
                                   is_first_message |-> FALSE] : e \in {"full", "stream"}}]
    /\ override = <<>>
    /\ is_first_message = TRUE
    /\ text = <<>>
    /\ parsed = <<>>
    /\ council = <<>>
    /\ stage1_results = <<>>
    /\ stage2_results = <<>>
    /\ label_to_model = <<>>
    /\ reply2 = <<>>
    /\ category = "none"
    /\ call1 = <<>>
    /\ call2 = <<>>
    /\ aggregate = <<>>
    /\ stream = <<>>
    /\ accumulated = <<>>
    /\ call3 = 0
    /\ stage3_result = NoResult
    /\ metadata = <<>>
    /\ events = <<>>
    /\ yielded = <<>>
    /\ model_responses = <<>>
    /\ rankings = <<>>
    /\ leaderboard = NoLeaderboard
    /\ router_calls = 0
    /\ router_reply = NoAnswer

ConcurrentUnchanged ==
    UNCHANGED <<mode, pc, override, council, category, call1, call2, reply2,
                stage1_results, stage2_results, label_to_model, aggregate, stream,
                accumulated, call3, stage3_result, metadata, events,
                is_first_message, text, parsed, yielded, store, router>>

\* send_message up to its first await: reads the conversation, stores the user turn
SendMessage(r) ==
    /\ mode = "concurrent"
    /\ requests[r].endpoint = "full"
    /\ requests[r].at = "arrived"
    /\ requests' = [requests EXCEPT ![r].is_first_message = (Len(messages) = 0),
                                    ![r].at = "awaiting",
                                    ![r].awaiting = 1]
    /\ messages' = Append(messages, Turn("user", r))
    /\ ConcurrentUnchanged

\* send_message_stream: reads the conversation and returns the response object;
\* event_generator has not started
SendMessageStream(r) ==
    /\ mode = "concurrent"
    /\ requests[r].endpoint = "stream"
    /\ requests[r].at = "arrived"
    /\ requests' = [requests EXCEPT ![r].is_first_message = (Len(messages) = 0),
                                    ![r].at = "generator"]
    /\ messages' = messages
    /\ ConcurrentUnchanged

\* event_generator up to its first await: stores the user turn
StartGenerator(r) ==
    /\ mode = "concurrent"
    /\ requests[r].at = "generator"
    /\ requests' = [requests EXCEPT ![r].at = "awaiting", ![r].awaiting = 1]
    /\ messages' = Append(messages, Turn("user", r))
    /\ ConcurrentUnchanged

\* the awaited call returns: the request runs to its next await or, after the
\* last one, stores the assistant turn and completes
Resume(r) ==
    /\ mode = "concurrent"
    /\ requests[r].at = "awaiting"
    /\ LET points == AwaitPoints(requests[r].endpoint, requests[r].is_first_message)
       IN  IF requests[r].awaiting < Len(points)
           THEN /\ requests' = [requests EXCEPT ![r].awaiting = @ + 1]
                /\ messages' = messages
           ELSE /\ requests' = [requests EXCEPT ![r].at = "done"]
                /\ messages' = Append(messages, Turn("assistant", r))
    /\ ConcurrentUnchanged

\* the awaited call raises: send_message propagates, event_generator yields an
\* error event; neither stores an assistant turn
Raise(r) ==
    /\ mode = "concurrent"
    /\ requests[r].at = "awaiting"
    /\ requests' = [requests EXCEPT ![r].at = "failed"]
    /\ messages' = messages
    /\ ConcurrentUnchanged

NextConcurrent ==
    \E r \in Requests :
        \/ SendMessage(r)
        \/ SendMessageStream(r)
        \/ StartGenerator(r)
        \/ Resume(r)
        \/ Raise(r)

SpecConcurrent == InitConcurrent /\ [][NextConcurrent]_vars

----------------------------------------------------------------------------
(* Claims on the drivers (Spec) *)

Driver == mode \in {"full", "stream"}

Round1Joined == Driver /\ pc \notin {"start", "resolve", "round1"}

Successes == {i \in 1..Len(call1) : call1[i] = "ok"}

HasEvent(t) == \E k \in 1..Len(events) : events[k].type = t

\* stage2_collect_rankings has returned
Round2Joined == Driver /\ call2 # <<>> /\ pc # "round2"

\* C1: in run_full_council, whenever Round 1 leaves fewer than 2 successes, no Round-2
\* and no Round-3 call is issued and the driver returns the Round-1 successes, an
\* empty Round-2 list, the "At least two models are required" result and metadata
\* holding only the detected category.
C1_MinimumGuard ==
    (mode = "full" /\ Round1Joined /\ Cardinality(Successes) < 2) =>
        /\ pc = "done"
        /\ call2 = <<>>
        /\ call3 = 0
        /\ Len(stage1_results) = Cardinality(Successes)
        /\ \A i \in Successes : \E k \in 1..Len(stage1_results) :
              stage1_results[k].model = council[i]
        /\ stage2_results = <<>>
        /\ stage3_result = MinimumError
        /\ DOMAIN metadata = {"detected_category"}
        /\ metadata.detected_category = category

C1_Witness ==
    /\ mode = "full"
    /\ pc = "done"
    /\ Len(council) = 3
    /\ call1 = <<"fail", "ok", "fail">>
    /\ Len(stage1_results) = 1
    /\ stage3_result.model = "error"

\* C2: in the streaming driver, whenever Round 1 yields fewer than 2 successes, no
\* stage2_start or stage3_start event is emitted and no Round-2 or Round-3 call is
\* issued.
C2_StreamGuard ==
    (mode = "stream" /\ Round1Joined /\ Cardinality(Successes) < 2) =>
        /\ ~HasEvent("stage2_start")
        /\ ~HasEvent("stage3_start")
        /\ call2 = <<>>
        /\ call3 = 0

\* C3: stage1_collect_responses returns exactly one entry for each panel member whose
\* call succeeded, none for a member whose call failed, and the request goes on.
C3_Stage1Successes ==
    Round1Joined =>
        /\ Len(stage1_results) = Cardinality(Successes)
        /\ \A i \in 1..Len(council) :
              Cardinality({k \in 1..Len(stage1_results) :
                              stage1_results[k].model = council[i]})
                  = IF call1[i] = "ok" THEN 1 ELSE 0
        /\ \A k \in 1..Len(stage1_results) : stage1_results[k].model \in Range(council)

C3_Witness ==
    /\ Round1Joined
    /\ Len(council) = 2
    /\ call1 = <<"ok", "fail">>
    /\ Len(stage1_results) = 1
    /\ stage1_results[1].model = council[1]

\* C4: the label-to-model mapping has exactly one label per Round-1 candidate, the
\* i-th label (A, B, C, ...) maps to the i-th candidate, and no two labels map to
\* the same model.
C4_LabelBijection ==
    Round2Joined =>
        /\ DOMAIN label_to_model = {Letters[i] : i \in 1..Len(stage1_results)}
        /\ Cardinality(DOMAIN label_to_model) = Cardinality(Successes)
        /\ \A i \in 1..Len(stage1_results) :
              label_to_model[Letters[i]] = stage1_results[i].model
        /\ \A a, b \in DOMAIN label_to_model :
              label_to_model[a] = label_to_model[b] => a = b

C4_Witness ==
    /\ Round2Joined
    /\ Len(council) = 4
    /\ call1 = <<"ok", "fail", "ok", "ok">>
    /\ label_to_model["B"] = council[3]
    /\ label_to_model["C"] = council[4]

----------------------------------------------------------------------------
(* Claims on parse_ranking_from_text (SpecParse) *)

Parsed == mode = "parse" /\ pc # "input"

\* index of the last occurrence of the marker (0 if there is none)
LastMarker(t) ==
    IF HasMarker(t)
    THEN CHOOSE i \in 1..Len(t) : t[i] = "mark" /\ \A h \in (i + 1)..Len(t) : t[h] # "mark"
    ELSE 0

MentionedBeforeMarker(t, l) == \E i \in 1..Len(t) : t[i] = l /\ i < LastMarker(t)

MentionedAfterMarker(t, l) ==
    HasMarker(t) /\ \E i \in 1..Len(t) : t[i] = l /\ i > LastMarker(t)

\* position j of s holds the label of an entry "<number>. Response <letter>"
IsEntry(s, j) ==
    /\ s[j] \in LetterSet
    /\ \E k \in 1..(j - 1) : s[k] = "num" /\ \A h \in (k + 1)..(j - 1) : s[h] = "sp"

RECURSIVE EntryLabels(_, _)
EntryLabels(s, j) ==
    IF j = 0 THEN <<>>
    ELSE IF IsEntry(s, j) THEN Append(EntryLabels(s, j - 1), s[j])
    ELSE EntryLabels(s, j - 1)

\* C5: a "Response X" mentioned before the marker FINAL RANKING: and not after it
\* never appears in the parsed output; every parsed token is one that occurs after
\* the marker.
C5_NoMentionBeforeMarker ==
    Parsed =>
        /\ \A l \in LetterSet :
              (MentionedBeforeMarker(text, l) /\ ~MentionedAfterMarker(text, l))
                  => l \notin Range(parsed)
        /\ \A l \in Range(parsed) : MentionedAfterMarker(text, l)

C5_Witness ==
    /\ Parsed
    /\ text = <<"A", "oth", "mark", "num", "B">>
    /\ parsed = <<"B">>

\* C6: for a text that contains the marker, the parse returns exactly the labels of
\* the entries "<number>. Response <letter>" after the last occurrence of the
\* marker, in textual order.
C6_EntriesAfterLastMarker ==
    (Parsed /\ HasMarker(text)) =>
        LET tail == SubSeq(text, LastMarker(text) + 1, Len(text))
        IN  parsed = EntryLabels(tail, Len(tail))

C6_Witness ==
    /\ Parsed
    /\ text = <<"mark", "num", "B", "num", "A">>
    /\ parsed = <<"B", "A">>

\* C7: the list the parse returns contains no "Response <letter>" token twice.
C7_NoDuplicates == Parsed => Injective(parsed)

\* C8: a text without the marker FINAL RANKING: parses to the empty list, and an
\* evaluator whose reply is neither a rubric nor holds the marker is still in the
\* Round-2 output, with an empty parsed ranking and no rubric.
C8_NoMarkerEmpty ==
    (Parsed /\ ~HasMarker(text)) =>
        /\ parsed = <<>>
        /\ pc = "evaluated" =>
              /\ Len(stage2_results) = 1
              /\ stage2_results[1].model = council[1]
              /\ stage2_results[1].ranking = text
              /\ stage2_results[1].parsed_ranking = <<>>
              /\ ~stage2_results[1].rubric.present

C8_Witness ==
    /\ pc = "evaluated"
    /\ text = <<"oth", "A", "oth", "num", "B">>
    /\ parsed = <<>>
    /\ Len(stage2_results) = 1
    /\ stage2_results[1].parsed_ranking = <<>>

----------------------------------------------------------------------------
(* Claims on calculate_aggregate_rankings (SpecAggregate) *)

Aggregated == mode = "aggregate" /\ pc = "done"

RECURSIVE SumTo(_, _)
SumTo(f, n) == IF n = 0 THEN 0 ELSE f[n] + SumTo(f, n - 1)

TotalOf(list, m) ==
    SumTo([i \in 1..Len(list) |-> IF list[i].model = m THEN list[i].total_score ELSE 0],
          Len(list))

CountOf(list, m) ==
    SumTo([i \in 1..Len(list) |-> IF list[i].model = m THEN list[i].rankings_count ELSE 0],
          Len(list))

UsesRubric(r) == r.rubric.present /\ r.rubric.entries # <<>>

\* the ordinal ranking the fallback path walks
OrdinalOf(r) ==
    IF r.parsed_ranking = <<>> THEN parse_ranking_from_text(r.ranking) ELSE r.parsed_ranking

\* the labels an evaluator scores, in order: its rubric's, or its ordinal ranking's
SubjectLabels(r) ==
    IF UsesRubric(r)
    THEN [i \in 1..Len(r.rubric.entries) |-> r.rubric.entries[i].label]
    ELSE OrdinalOf(r)

Targets(r, i, m) ==
    /\ SubjectLabels(r)[i] \in DOMAIN label_to_model
    /\ label_to_model[SubjectLabels(r)[i]] = m

\* raw score of the i-th contribution of evaluator r, in tenths
RawOf(r, i) ==
    IF UsesRubric(r) THEN RawScore(r.rubric.entries[i])
    ELSE MockScore(Cardinality(DOMAIN label_to_model), i)

\* the raw scores given to m, weighted by half (1) for m's own and by one (2) for
\* any other evaluator's, summed over every evaluator and every entry; in twentieths
DiscountedTotal(m) ==
    SumTo([k \in 1..Len(stage2_results) |->
              LET r == stage2_results[k]
              IN  SumTo([i \in 1..Len(SubjectLabels(r)) |->
                            IF Targets(r, i, m)
                            THEN RawOf(r, i) * (IF r.model = m THEN 1 ELSE 2)
                            ELSE 0],
                        Len(SubjectLabels(r)))],
          Len(stage2_results))

SelfFirstOfTwo ==
    /\ Len(stage2_results) = 1
    /\ stage2_results[1].model = "m1"
    /\ ~UsesRubric(stage2_results[1])
    /\ stage2_results[1].parsed_ranking = <<"A", "B">>
    /\ DOMAIN label_to_model = {"A", "B"}

\* C9: every contribution to a subject's total is the raw score times 0.5 when the
\* evaluator is the subject and times 1.0 otherwise, in the rubric and in the
\* ordinal path; one evaluator ranking itself first of two candidates leaves both
\* with total_score 10.0 (200 twentieths).
C9_SelfDiscount ==
    Aggregated =>
        /\ \A m \in Models : TotalOf(aggregate, m) = DiscountedTotal(m)
        /\ SelfFirstOfTwo => TotalOf(aggregate, "m1") = 200 /\ TotalOf(aggregate, "m2") = 200

C9_Witness ==
    /\ Aggregated
    /\ SelfFirstOfTwo
    /\ Len(aggregate) = 2
    /\ aggregate[1].total_score = 200
    /\ aggregate[2].total_score = 200

OrdinalOnly == \A k \in 1..Len(stage2_results) : ~UsesRubric(stage2_results[k])

\* positions of evaluator r's ordinal ranking whose label maps to m
PositionsOf(r, m) == {p \in 1..Len(OrdinalOf(r)) : Targets(r, p, m)}

\* C10: in the ordinal path the label at 1-based position p contributes the raw score
\* (n - p + 1) * 10 (times 10 again, in tenths) to the model it maps to, n the size
\* of the mapping, and adds 1 to that model's count; a label outside the mapping
\* contributes nothing.
C10_OrdinalScore ==
    (Aggregated /\ OrdinalOnly) =>
        LET n == Cardinality(DOMAIN label_to_model)
        IN  \A m \in Models :
              /\ TotalOf(aggregate, m) =
                    SumTo([k \in 1..Len(stage2_results) |->
                              LET r == stage2_results[k]
                              IN  SumTo([p \in 1..Len(OrdinalOf(r)) |->
                                            IF p \in PositionsOf(r, m)
                                            THEN (n - p + 1) * 10 * 10
                                                     * Weight(r.model, m)
                                            ELSE 0],
                                        Len(OrdinalOf(r)))],
                          Len(stage2_results))
              /\ CountOf(aggregate, m) =
                    SumTo([k \in 1..Len(stage2_results) |->
                              Cardinality(PositionsOf(stage2_results[k], m))],
                          Len(stage2_results))

C10_Witness ==
    /\ Aggregated
    /\ DOMAIN label_to_model = {"A"}
    /\ Len(stage2_results) = 2
    /\ stage2_results[1].model = "m2"
    /\ stage2_results[1].parsed_ranking = <<"B", "A">>
    /\ ~UsesRubric(stage2_results[1])
    /\ stage2_results[2].parsed_ranking = <<"A">>
    /\ ~UsesRubric(stage2_results[2])
    /\ stage2_results[2].model = "m3"
    /\ Len(aggregate) = 1
    /\ aggregate[1].model = "m1"
    /\ aggregate[1].total_score = 200
    /\ aggregate[1].rankings_count = 2

\* evaluator k's i-th contribution goes to model m
Encounter(k, i, m) ==
    /\ k \in 1..Len(stage2_results)
    /\ i \in 1..Len(SubjectLabels(stage2_results[k]))
    /\ Targets(stage2_results[k], i, m)

\* a is first credited before b is, walking the evaluators in order and each
\* evaluator's contributions in order
EncounteredBefore(a, b) ==
    \E k \in 1..Len(stage2_results) :
        \E i \in 1..Len(SubjectLabels(stage2_results[k])) :
            /\ Encounter(k, i, a)
            /\ \A k2 \in 1..Len(stage2_results) :
                  \A i2 \in 1..Len(SubjectLabels(stage2_results[k2])) :
                      Encounter(k2, i2, b) => (k < k2 \/ (k = k2 /\ i < i2))

\* C11: the aggregate is sorted by total_score, highest first, and models with equal
\* total_score stand in the order in which they were first credited while the
\* Round-2 outputs were accumulated.
C11_SortedTiesByEncounter ==
    Aggregated =>
        \A p \in 1..Len(aggregate) : \A q \in (p + 1)..Len(aggregate) :
            \/ aggregate[p].total_score > aggregate[q].total_score
            \/ /\ aggregate[p].total_score = aggregate[q].total_score
               /\ EncounteredBefore(aggregate[p].model, aggregate[q].model)

C11_Witness ==
    /\ Aggregated
    /\ Len(stage2_results) = 1
    /\ stage2_results[1].model = "m2"
    /\ ~UsesRubric(stage2_results[1])
    /\ stage2_results[1].parsed_ranking = <<"B", "A">>
    /\ DOMAIN label_to_model = {"A", "B"}
    /\ Len(aggregate) = 2
    /\ aggregate[1].model = "m2"
    /\ aggregate[2].model = "m1"
    /\ aggregate[1].total_score = aggregate[2].total_score

----------------------------------------------------------------------------
(* Claims on the rubric parse of stage2_collect_rankings (SpecRubric) *)

RubricEvaluated == mode = "rubric" /\ pc = "evaluated"

\* the decoded "evaluations" array of the one reply, <<>> when there is none
Evaluations1 == IF reply2[1].json.kind = "evals" THEN reply2[1].json.evals ELSE <<>>

Labelled(es) == {i \in 1..Len(es) : es[i].label # "none"}

\* ranking lists the labelled entries of es, each once, highest raw score first,
\* equal raw scores in their original order
ListsLabelledSorted(ranking, es) ==
    /\ Len(ranking) = Cardinality(Labelled(es))
    /\ \E f \in [1..Len(ranking) -> Labelled(es)] :
          /\ \A p \in 1..Len(ranking) : ranking[p] = es[f[p]].label
          /\ \A p \in 1..Len(ranking) : \A q \in (p + 1)..Len(ranking) :
                \/ RawScore(es[f[p]]) > RawScore(es[f[q]])
                \/ RawScore(es[f[p]]) = RawScore(es[f[q]]) /\ f[p] < f[q]

\* the reply decodes to a rubric array with a labelled entry whose ranking can be
\* derived without an error
UsableRubric ==
    /\ reply2[1].json.kind = "evals"
    /\ Labelled(Evaluations1) # {}
    /\ \A i \in 1..Len(Evaluations1) : ~Evaluations1[i].bad

\* C12: the Round-2 output of an evaluator carries a rubric only if its reply
\* decodes to a rubric array with at least one labelled entry and the ranking is
\* derived from it without error; whenever the rubric is present the parsed ranking
\* is the rubric-derived one, never the text-parsed one.
C12_RubricOnlyIfUsable ==
    RubricEvaluated =>
        /\ stage2_results[1].rubric.present <=> UsableRubric
        /\ stage2_results[1].rubric.present =>
              ListsLabelledSorted(stage2_results[1].parsed_ranking, Evaluations1)

\* C13: when a rubric is present, the parsed ranking lists the rubric's labelled
\* entries as Response <label> tokens, sorted descending by
\* (accuracy + reasoning + completeness + clarity) * confidence, equal scores in
\* their original relative order.
C13_RubricRankingSorted ==
    (RubricEvaluated /\ stage2_results[1].rubric.present) =>
        ListsLabelledSorted(stage2_results[1].parsed_ranking,
                            stage2_results[1].rubric.entries)

----------------------------------------------------------------------------
(* Claims on Round 3 and on the streaming driver (Spec) *)

\* stage3_synthesize_final has run to its end
Synthesised == Driver /\ call3 > 0 /\ pc \in {"title", "done"}

Chunks(fragments) == [i \in 1..Len(fragments) |-> Chunk(fragments[i])]

\* C14: stage3_synthesize_final yields each fragment once, in arrival order and
\* before the next one arrives, and after the last fragment exactly one completion
\* marker, its last item, carrying the designated model and the concatenation of
\* the fragments in order; run_full_council returns that marker as the final result.
C14_FragmentsThenMarker ==
    Driver =>
        /\ pc = "round3" => yielded = Chunks(stream)
        /\ Synthesised =>
              /\ yielded = Chunks(stream) \o
                    <<[model |-> CHAIRMAN_MODEL, done |-> TRUE, response |-> stream]>>
              /\ mode = "full" => stage3_result = yielded[Len(yielded)]

C14_Witness ==
    /\ mode = "full"
    /\ pc = "done"
    /\ stream = <<"x", "y">>
    /\ Len(yielded) = 3
    /\ yielded[1] = Chunk("x")
    /\ yielded[2] = Chunk("y")
    /\ stage3_result.model = CHAIRMAN_MODEL
    /\ stage3_result.response = <<"x", "y">>

\* the lifecycle events emitted so far, by type (the title event set aside)
Lifecycle ==
    LET core == SelectSeq(events, LAMBDA e : e.type # "title_complete")
    IN  [k \in 1..Len(core) |-> core[k].type]

RoundOrder ==
    <<"stage1_start", "stage1_complete", "stage2_start", "stage2_complete", "stage3_start">>

Terminal == {"complete", "error"}

\* the streaming run has ended
StreamOver == mode = "stream" /\ pc \in {"done", "failed"}

\* C15: the streaming driver emits stage1_start, stage1_complete, stage2_start,
\* stage2_complete, stage3_start, stage3_token events, stage3_complete and a terminal
\* event in this order; a run that has ended emitted exactly one terminal event
\* (complete or error), its last event; no round-complete event comes without the
\* round-start event of the same round before it.
C15_LifecycleOrder ==
    mode = "stream" =>
        /\ \A k \in 1..Len(Lifecycle) :
              LET t == Lifecycle[k]
                  before == IF k = 1 THEN "none" ELSE Lifecycle[k - 1]
              IN  /\ (k <= Len(RoundOrder) /\ t # "error") => t = RoundOrder[k]
                  /\ k > Len(RoundOrder) =>
                        t \in {"stage3_token", "stage3_complete", "complete", "error"}
                  /\ t \in {"stage3_token", "stage3_complete"} =>
                        before \in {"stage3_start", "stage3_token"}
                  /\ t = "complete" => before = "stage3_complete"
        /\ \A k \in 1..Len(events) :
              /\ events[k].type \in Terminal => (k = Len(events) /\ StreamOver)
              /\ \A n \in {"stage1", "stage2", "stage3"} :
                    (CASE n = "stage1" -> events[k].type = "stage1_complete"
                       [] n = "stage2" -> events[k].type = "stage2_complete"
                       [] n = "stage3" -> events[k].type = "stage3_complete") =>
                    \E h \in 1..(k - 1) :
                        events[h].type =
                            (CASE n = "stage1" -> "stage1_start"
                               [] n = "stage2" -> "stage2_start"
                               [] n = "stage3" -> "stage3_start")
        /\ StreamOver =>
              /\ events # <<>>
              /\ events[Len(events)].type = (IF pc = "done" THEN "complete" ELSE "error")
              /\ Cardinality({k \in 1..Len(events) : events[k].type \in Terminal}) = 1

C15_Witness ==
    /\ mode = "stream"
    /\ pc = "done"
    /\ is_first_message
    /\ [k \in 1..Len(events) |-> events[k].type] =
          <<"stage1_start", "stage1_complete", "stage2_start", "stage2_complete",
            "stage3_start", "stage3_token", "stage3_token", "stage3_complete",
            "title_complete", "complete">>

\* the turns stored before the request arrived
StoredBefore == IF is_first_message THEN <<>> ELSE <<"user", "assistant">>

\* C16: when an exception is raised in a round or in the streaming synthesis of the
\* streaming driver, after the user turn was recorded, the remaining rounds are not
\* run, exactly one error event is emitted with nothing after it (no stage3_token,
\* stage3_complete or complete), and no assistant turn is persisted.
C16_ErrorEndsRun ==
    (mode = "stream" /\ pc = "failed") =>
        /\ Cardinality({k \in 1..Len(events) : events[k].type = "error"}) = 1
        /\ events[Len(events)].type = "error"
        /\ ~HasEvent("stage3_complete")
        /\ ~HasEvent("complete")
        /\ ~HasEvent("stage2_complete") => (call3 = 0 /\ yielded = <<>>)
        /\ stage3_result = NoResult
        /\ messages = Append(StoredBefore, "user")

C16_Witness ==
    /\ mode = "stream"
    /\ pc = "failed"
    /\ [k \in 1..Len(events) |-> events[k].type] =
          <<"stage1_start", "stage1_complete", "stage2_start", "stage2_complete",
            "stage3_start", "stage3_token", "error">>
    /\ messages = <<"user", "assistant", "user">>

\* C17: in both drivers no Round-2 call is issued before every Round-1 call has
\* settled, the aggregate is computed only after every Round-2 call has settled, and
\* the Round-3 call is issued only after every Round-2 call has settled.
C17_RoundBarrier ==
    Driver =>
        /\ call2 # <<>> => (call1 # <<>> /\ Settled(call1))
        /\ Round2Joined => Settled(call2)
        /\ aggregate # <<>> => (call2 # <<>> /\ Settled(call2))
        /\ call3 > 0 => (call2 # <<>> /\ Settled(call2) /\ Settled(call1))

C17_Witness ==
    /\ Driver
    /\ pc = "round3"
    /\ call3 = 1
    /\ call1 = <<"ok", "fail", "ok">>
    /\ call2 = <<"done", "done", "done">>
    /\ aggregate # <<>>

----------------------------------------------------------------------------
(* Claims on calculate_elo_ratings (SpecElo) *)

Computed == mode = "elo" /\ pc = "computed"

Results == leaderboard.results

\* the Round-1 rows of model m
Stage1RowsOf(m) == {k \in 1..Len(model_responses) : model_responses[k].model = m}

\* the ranking rows that have m as their subject, sentinel rows included
SubjectRowsOf(m) == {k \in 1..Len(rankings) : rankings[k].subject_model = m}

EntriesOf(m) == {i \in 1..Len(Results) : Results[i].model = m}

\* C18: a model with no ranking row and at least one Round-1 row is in the
\* recomputed records with rating 1000, 0 wins, 0 losses and an appearance count
\* equal to the number of its Round-1 rows; every record's appearance count is the
\* number of Round-1 rows of its model.
C18_UnrankedAppearances ==
    Computed =>
        /\ \A m \in Models :
              (Stage1RowsOf(m) # {} /\ SubjectRowsOf(m) = {}) =>
                  /\ Cardinality(EntriesOf(m)) = 1
                  /\ \A i \in EntriesOf(m) :
                        /\ Results[i].elo = 1000
                        /\ Results[i].wins = 0
                        /\ Results[i].losses = 0
                        /\ Results[i].appearances = Cardinality(Stage1RowsOf(m))
        /\ \A i \in 1..Len(Results) :
              Results[i].appearances = Cardinality(Stage1RowsOf(Results[i].model))

C18_Witness ==
    /\ Computed
    /\ Cardinality(Stage1RowsOf("m2")) = 2
    /\ SubjectRowsOf("m2") = {}
    /\ SubjectRowsOf("m1") # {}
    /\ \E i \in EntriesOf("m2") :
          /\ Results[i].elo = 1000
          /\ Results[i].appearances = 2
    /\ \E i \in EntriesOf("m1") : Results[i].wins > 0

\* rows k and h belong to one (message, evaluator) group and take part in pairs
Paired(k, h) ==
    /\ k < h
    /\ rankings[k].rank_position # Sentinel
    /\ rankings[h].rank_position # Sentinel
    /\ rankings[k].message_id = rankings[h].message_id
    /\ rankings[k].evaluator_model = rankings[h].evaluator_model

DrawnPairs ==
    {kh \in (1..Len(rankings)) \X (1..Len(rankings)) :
        Paired(kh[1], kh[2])
        /\ rankings[kh[1]].rank_position = rankings[kh[2]].rank_position}

DecisivePairs ==
    {kh \in (1..Len(rankings)) \X (1..Len(rankings)) :
        Paired(kh[1], kh[2])
        /\ rankings[kh[1]].rank_position # rankings[kh[2]].rank_position}

\* C19: a pair of rows of one group with equal rank positions is a draw and causes
\* no update: the updates applied are as many as the pairs with different rank
\* positions, every win and loss recorded belongs to one of them, and when every
\* pair is a draw every rating is 1000 with 0 wins and 0 losses.
C19_DrawNoUpdate ==
    Computed =>
        /\ Len(leaderboard.applied) = Cardinality(DecisivePairs)
        /\ SumTo([i \in 1..Len(Results) |-> Results[i].wins], Len(Results))
              = Cardinality(DecisivePairs)
        /\ SumTo([i \in 1..Len(Results) |-> Results[i].losses], Len(Results))
              = Cardinality(DecisivePairs)
        /\ DecisivePairs = {} =>
              \A i \in 1..Len(Results) :
                  Results[i].elo = 1000 /\ Results[i].wins = 0 /\ Results[i].losses = 0

C19_Witness ==
    /\ Computed
    /\ DrawnPairs # {}
    /\ DecisivePairs = {}
    /\ Results # <<>>
    /\ \A i \in 1..Len(Results) : Results[i].elo = 1000 /\ Results[i].wins = 0

\* C20: the winner and the loser of every pairwise update applied are two distinct
\* subject models, for every history add_assistant_message can persist.
C20_DistinctWinnerLoser ==
    Computed =>
        \A u \in 1..Len(leaderboard.applied) :
            leaderboard.applied[u].winner # leaderboard.applied[u].loser

Recomputed == mode = "elo" /\ pc = "recomputed"

Applied == leaderboard.applied

\* the ratings, wins and losses that applying the logged updates one after the
\* other gives, each update reading the ratings the ones before it left
RECURSIVE Replay(_, _)
Replay(board, u) ==
    IF u > Len(Applied) THEN board
    ELSE Replay(Update(board, Applied[u].winner, Applied[u].loser), u + 1)

\* one request, candidates m1 and m2, both evaluators ranking B before A
TwiceBOverA ==
    /\ Len(messages) = 2
    /\ stage1_results = TwoCandidates
    /\ reply2 = <<RankingReply, RankingReply>>

\* C22: the groups are processed in ascending (message id, evaluator) order and the
\* pairs of a group in rank-position order, the row of the lower position first;
\* every update reads the ratings current at that point; a row with the sentinel
\* position 99 takes part in no pair.
C22_ProcessingOrder ==
    Computed =>
        /\ \A u \in 1..Len(Applied) : \A v \in (u + 1)..Len(Applied) :
              \/ Applied[u].message_id < Applied[v].message_id
              \/ /\ Applied[u].message_id = Applied[v].message_id
                 /\ ModelIndex(Applied[u].evaluator_model)
                        < ModelIndex(Applied[v].evaluator_model)
              \/ /\ Applied[u].message_id = Applied[v].message_id
                 /\ Applied[u].evaluator_model = Applied[v].evaluator_model
                 /\ Applied[u].rank_a <= Applied[v].rank_a
        /\ \A u \in 1..Len(Applied) :
              /\ Applied[u].rank_a < Applied[u].rank_b
              /\ Applied[u].rank_b # Sentinel
        /\ LET final == Replay(InitialBoard(model_responses, 1, <<>>), 1)
           IN  {[model |-> Results[i].model, elo |-> Results[i].elo,
                 wins |-> Results[i].wins, losses |-> Results[i].losses] :
                    i \in 1..Len(Results)}
               = {[model |-> final[i].model, elo |-> Round(final[i].elo),
                   wins |-> final[i].wins, losses |-> final[i].losses] :
                    i \in 1..Len(final)}
        /\ TwiceBOverA =>
              /\ Results[1] = [model |-> "m2", elo |-> 1031, wins |-> 2, losses |-> 0,
                               appearances |-> 1]
              /\ Results[2] = [model |-> "m1", elo |-> 969, wins |-> 0, losses |-> 2,
                               appearances |-> 1]

C22_Witness ==
    /\ Computed
    /\ Len(messages) = 4
    /\ \E u \in 1..Len(Applied) : \E v \in (u + 1)..Len(Applied) :
          /\ Applied[u].message_id < Applied[v].message_id
          /\ Applied[u].evaluator_model = "m2"
          /\ Applied[v].evaluator_model = "m1"
    /\ \E k \in 1..Len(rankings) : rankings[k].rank_position = Sentinel
    /\ \E i \in 1..Len(Results) : Results[i].elo \notin {1000, 1016, 984}

----------------------------------------------------------------------------
(* Claims on get_council_for_query (SpecResolve) *)

Resolved == mode = "resolve" /\ pc = "resolved"

\* C23: with a non-empty override get_council_for_query returns the override
\* itself, tagged MANUAL_OVERRIDE, and the classifier is not called; otherwise it
\* returns the preset panel of the category the classifier detected, tagged with
\* it, GENERAL when the classifier failed or named no category; the tag is always
\* the manual-override marker or one of the six categories.
C23_ResolvePanel ==
    Resolved =>
        /\ category \in Categories \cup {"MANUAL_OVERRIDE"}
        /\ override # <<>> =>
              /\ council = override
              /\ category = "MANUAL_OVERRIDE"
              /\ router_calls = 0
        /\ override = <<>> =>
              /\ router_calls = 1
              /\ category \in Categories
              /\ council = COUNCIL_PRESETS[category]
              /\ LET named == router_reply.names \cap Categories
                 IN  IF router_reply.ok /\ named # {}
                     THEN category \in named
                     ELSE category = "GENERAL" /\ council = COUNCIL_MODELS

C23_Witness ==
    /\ Resolved
    /\ override = <<"m2", "m1">>
    /\ council = <<"m2", "m1">>
    /\ category = "MANUAL_OVERRIDE"
    /\ router_calls = 0

----------------------------------------------------------------------------
(* The range of the ordinal scores (SpecAggregate) *)

\* C24: every contribution of the ordinal path has a raw score between 10 and
\* 10 * n (100 and 100 * n tenths), n the size of the mapping, so that with
\* ordinal evaluators only every total_score of the aggregate is strictly
\* positive.
C24_OrdinalPositive ==
    Aggregated =>
        LET n == Cardinality(DOMAIN label_to_model)
        IN  /\ \A k \in 1..Len(stage2_results) :
                  LET r == stage2_results[k]
                  IN  ~UsesRubric(r) =>
                          \A p \in 1..Len(OrdinalOf(r)) :
                              OrdinalOf(r)[p] \in DOMAIN label_to_model =>
                                  /\ MockScore(n, p) >= 100
                                  /\ MockScore(n, p) <= 100 * n
            /\ OrdinalOnly => \A i \in 1..Len(aggregate) : aggregate[i].total_score > 0

----------------------------------------------------------------------------
(* Claims on concurrent requests (SpecConcurrent) *)

AllCompleted == mode = "concurrent" /\ \A r \in Requests : requests[r].at = "done"

\* C25: when every request on the conversation has completed, the stored turns
\* alternate user, assistant, user, assistant, and each assistant turn comes
\* directly after the user turn of its own request.
C25_TurnsAlternate ==
    AllCompleted =>
        \A i \in 1..Len(messages) :
            IF i % 2 = 1
            THEN messages[i].role = "user"
            ELSE /\ messages[i].role = "assistant"
                 /\ messages[i].request = messages[i - 1].request

====
